---- MODULE Spec2Model ----
(***************************************************************************)
(* MapVerse: the location / route / search coordination core.              *)
(*                                                                         *)
(* The browser is single-threaded: every handler below runs to completion  *)
(* (up to its first await) as one atomic action.  The suspension points    *)
(* are the one-shot geolocation fix, the geolocation watch callbacks, the  *)
(* route and search HTTP requests and the search debounce timer; each is   *)
(* a piece of environment state whose completion is a separate action.     *)
(***************************************************************************)
EXTENDS Integers, Sequences, FiniteSets, TLC

(***************************************************************************)
(* Bounds of the model.                                                    *)
(***************************************************************************)
\* number of distinct positions the geolocation source reports
MaxPos == 2
\* number of distinct places a destination can be set to
MaxPlace == 2
\* watchPosition subscriptions started in one behaviour
MaxWatches == 2
\* getCurrentPosition requests outstanding at once
MaxFixes == 1
\* Routing.getRoute invocations in one behaviour
MaxRouteRequests == 2
\* Search.performSearch invocations in one behaviour
MaxSearchRequests == 2
\* results in one geocoder response
MaxResults == 1
\* setTimeout calls in one behaviour
MaxTimers == 2
\* route and search requests sent in a behaviour that follows both kinds
MaxJointRequests == 2
\* milliseconds that pass in one behaviour
MaxTicks == 2
\* reverse-geocode requests sent in one behaviour
MaxGeocodes == 2
\* favorites in the list when addFavorite is called
MaxFavorites == 2
\* measuring click handlers registered at one time
MaxMeasureHandlers == 2
\* measurement points on the map at one time
MaxMeasurePoints == 3
\* openings of the nearby-places modal in one behaviour
MaxNearbyOpenings == 2
\* nearby search requests sent in one behaviour
MaxNearbyRequests == 2

(***************************************************************************)
(* Values.                                                                 *)
(***************************************************************************)
\* JavaScript null, for the fields that hold an object or null
NULL == [null |-> TRUE]

\* {lat, lng} objects: fixes reported by the geolocation source ...
Positions == {[lat |-> i, lng |-> i] : i \in 1..MaxPos}
\* ... and places on the map (a click, a search result, a shared link)
Places == {[lat |-> 10 + i, lng |-> 10 + i] : i \in 1..MaxPlace}

\* data-mode of the .travel-mode-btn buttons
TravelModes == {"driving", "walking", "cycling"}
\* what a previous session may have left under mapverse_travel_mode:
\* nothing, a mode other than the default, a mode this version does not know
StoredModes == {NULL, [v |-> "cycling"], [v |-> "transit"], [v |-> "constructor"]}

\* what the user may leave in #search-input, one character per element
RawInputs ==
    { <<>>, <<"c", "e">>, <<" ", "c", "e", " ">>, <<"c", "e", "n">>,
      <<"c", "e", "n", " ">>, <<"c", "e", "n", "t">> }

\* outcomes of the geocoder request: a JSON array, a rejected fetch
SearchOutcomes == {"ok", "network"}

\* outcomes of the routing request: a route, a rejected fetch, a body whose
\* code is not "Ok", a body with no routes
RouteOutcomes == {"ok", "network", "notOk", "empty"}
\* PositionError codes
FixErrors == {"PERMISSION_DENIED", "POSITION_UNAVAILABLE", "TIMEOUT"}

\* the length addRecentSearch cuts the recent list to
RecentCap == 50

\* Date.now() when the page is opened: the readings below it belong to the
\* earlier sessions that wrote what localStorage holds
SessionStart == RecentCap + 1

\* the recent list an earlier session left after picking n places, one per
\* clock reading, the latest pick in front
PickedBefore(n) ==
    [i \in 1..n |->
        [id |-> SessionStart - i, name |-> <<"P">>, lat |-> n + 1 - i,
         lng |-> n + 1 - i, address |-> <<"P", ",", "Q">>,
         timestamp |-> SessionStart - i]]

\* nothing picked, one pick, one pick short of the cap, the cap
StoredRecents == {PickedBefore(n) : n \in {0, 1, RecentCap - 1, RecentCap}}

\* what addRecentSearch may be called with: the oldest and the latest stored
\* coordinate under another name, a coordinate that shares only its latitude
\* with a stored one, a coordinate never stored, given without an address
RecentInputs ==
    { [name |-> <<"A">>, lat |-> 1, lng |-> 1, address |-> <<"A", ",", "B">>],
      [name |-> <<"A">>, lat |-> RecentCap, lng |-> RecentCap,
       address |-> <<"A", ",", "B">>],
      [name |-> <<"C">>, lat |-> 1, lng |-> 2, address |-> <<"C">>],
      [name |-> <<"D">>, lat |-> RecentCap + 1, lng |-> RecentCap + 1] }

\* the favorites an earlier session left: none, or one
StoredFavorites ==
    { <<>>,
      << [id |-> SessionStart - 1, name |-> <<"Home">>, lat |-> 1, lng |-> 1,
          address |-> <<"Home", ",", " Springfield">>,
          createdAt |-> SessionStart - 1] >> }

\* the values the page stores under the keys of stItems, and an object that
\* refers to itself
StoredValues ==
    {[text |-> "dark"], [text |-> "light"], [text |-> "standard"], [cyclic |-> TRUE]}

\* what localStorage may hold under a key when the page is opened: nothing,
\* the JSON text of a value, a text that is not JSON
StoredTexts == {NULL, [json |-> [text |-> "dark"]], [raw |-> "{"]}

\* lengths in metres and times in seconds of the routes whose summary is
\* checked: around the halves of a tenth of a kilometre, around the minute
\* and the hour
SummaryDistances == {0, 49, 50, 51, 949, 950, 1000, 1049, 1050, 1051, 12345, 99950}
SummaryDurations == {0, 1, 59, 60, 61, 120, 3540, 3541, 3600, 3601, 7260, 86400}

\* where L.map(...).setView puts the viewport when the map is created
DefaultCenter == [lat |-> 40, lng |-> -74]

\* what addFavorite may be called with: a place with its address, a place
\* given without one
FavoriteInputs ==
    { [name |-> <<"Main St">>, lat |-> 11, lng |-> 11,
       address |-> <<"Main St", ",", " Springfield">>],
      [name |-> <<"Saved Location">>, lat |-> 12, lng |-> 12] }

\* where the user may drag the map to, and back
PanTargets == {DefaultCenter, CHOOSE place \in Places : TRUE}

\* bodies of a reverse-geocode response: an address, an address that opens
\* with a comma, an error object (no display_name)
GeocodeBodies ==
    { [display_name |-> <<"Main St", ",", " Springfield">>],
      [display_name |-> <<",", " Springfield">>],
      [error |-> "Unable to geocode"] }

\* outcomes of the reverse-geocode request: a JSON body, a rejected fetch
GeocodeOutcomes == {"ok", "network"}

VARIABLES
    \* ---- MapModule
    userLocation,         \* NULL or {lat, lng}
    watchId,              \* 0 (null) or the id watchPosition returned
    destinationMarker,    \* NULL or the marker's {lat, lng}
    routeLayer,           \* NULL or the polyline, named by the route it draws
    measureMarkers,       \* the measurement points, in the order they were clicked
    measureLine,          \* NULL or the line between two measurement points
    measureHandlers,      \* the measureHandler closures registered for the map's click
    nearbyModalHidden,    \* #nearby-modal has class hidden
    categoryListeners,    \* click listeners on each .category-btn
    nearbyResults,        \* what #nearby-results shows
    inflightNearby,       \* nearby search requests sent and not yet answered
    nearbySeq,            \* nearby search requests sent so far
    \* ---- Leaflet map: layers added and not removed
    markersOnMap,         \* destination markers on the map
    polylinesOnMap,       \* route polylines on the map
    \* ---- Routing
    currentRoute,         \* NULL or [start, end]
    travelMode,
    routeSummary,         \* NULL or the route whose summary #route-summary shows
    panelHidden,          \* #directions-panel has class hidden
    \* ---- App
    initialized,
    locationPermissionGranted,
    \* ---- Storage (localStorage)
    stLastLocation,       \* NULL or {lat, lng}
    stTravelMode,         \* NULL or [v |-> mode]
    stRecent,             \* the list under mapverse_recent_searches
    stFavorites,          \* the list under mapverse_favorites
    stItems,              \* key -> NULL or the item, for the remaining keys
    \* ---- UI
    lastToast,            \* text of the latest toast
    summaryText,          \* NULL or the texts of #route-distance, #route-duration
    mapView,              \* what the viewport was last set to show
    \* ---- Search
    searchTimeout,        \* 0 (null) or the id setTimeout returned
    queryShort,           \* the trimmed value of #search-input is under 3 characters
    currentResults,       \* the array Search.currentResults
    renderedResults,      \* the items of #search-results
    resultsHidden,        \* #search-results has class hidden
    \* ---- environment
    hidden,               \* document.hidden
    geoSupported,         \* navigator.geolocation exists
    pendingFixes,         \* getCurrentPosition calls not yet answered
    activeWatches,        \* ids of watches started and not cleared
    watchSeq,             \* ids handed out by watchPosition so far
    inflightRoutes,       \* route requests sent and not yet answered
    routeSeq,             \* route requests sent so far
    timers,               \* pending debounce timers: [id, query]
    timerSeq,             \* ids handed out by setTimeout so far
    inflightSearches,     \* search requests sent and not yet answered
    searchSeq,            \* search requests sent so far
    inflightGeocodes,     \* reverse-geocode requests sent and not yet answered
    geocodeSeq,           \* reverse-geocode requests sent so far
    clock,                \* the reading of Date.now()
    \* ---- history (not program state; what the properties refer to)
    raised,               \* an exception escaped a handler
    latestRoute,          \* NULL or the settled latest getRoute invocation: [route, ok]
    routeSnapshot,        \* NULL or the Route state the pending latest invocation found
    trackedAtHide,        \* a watch was active when the document was last hidden
    latestSearch,         \* NULL or the settled latest performSearch invocation: [query, ok]
    returned              \* NULL or what the latest Storage call returned

vars == <<userLocation, watchId, destinationMarker, routeLayer, markersOnMap,
          polylinesOnMap, currentRoute, travelMode, routeSummary, panelHidden,
          initialized, locationPermissionGranted, stLastLocation, stTravelMode,
          lastToast, searchTimeout, currentResults, renderedResults,
          resultsHidden, hidden, geoSupported, pendingFixes, activeWatches,
          watchSeq, inflightRoutes, routeSeq, timers, timerSeq,
          inflightSearches, searchSeq, raised, latestRoute, routeSnapshot,
          trackedAtHide, latestSearch, stRecent, stFavorites, stItems,
          summaryText, mapView, inflightGeocodes, geocodeSeq, clock, returned,
          queryShort, measureMarkers, measureLine, measureHandlers,
          nearbyModalHidden, categoryListeners, nearbyResults, inflightNearby,
          nearbySeq>>

\* the whole state as one record, so that a handler is a function from state
\* to state and one handler can call another
Cur ==
    [userLocation |-> userLocation, watchId |-> watchId,
     destinationMarker |-> destinationMarker, routeLayer |-> routeLayer,
     markersOnMap |-> markersOnMap, polylinesOnMap |-> polylinesOnMap,
     currentRoute |-> currentRoute, travelMode |-> travelMode,
     routeSummary |-> routeSummary, panelHidden |-> panelHidden,
     initialized |-> initialized,
     locationPermissionGranted |-> locationPermissionGranted,
     stLastLocation |-> stLastLocation, stTravelMode |-> stTravelMode,
     lastToast |-> lastToast, searchTimeout |-> searchTimeout,
     currentResults |-> currentResults, renderedResults |-> renderedResults,
     resultsHidden |-> resultsHidden, hidden |-> hidden,
     geoSupported |-> geoSupported, pendingFixes |-> pendingFixes,
     activeWatches |-> activeWatches, watchSeq |-> watchSeq,
     inflightRoutes |-> inflightRoutes, routeSeq |-> routeSeq,
     timers |-> timers, timerSeq |-> timerSeq,
     inflightSearches |-> inflightSearches, searchSeq |-> searchSeq,
     raised |-> raised, latestRoute |-> latestRoute,
     routeSnapshot |-> routeSnapshot, trackedAtHide |-> trackedAtHide,
     latestSearch |-> latestSearch, stRecent |-> stRecent,
     stFavorites |-> stFavorites, stItems |-> stItems,
     summaryText |-> summaryText, mapView |-> mapView,
     inflightGeocodes |-> inflightGeocodes, geocodeSeq |-> geocodeSeq,
     clock |-> clock, returned |-> returned,
     queryShort |-> queryShort, measureMarkers |-> measureMarkers,
     measureLine |-> measureLine, measureHandlers |-> measureHandlers,
     nearbyModalHidden |-> nearbyModalHidden,
     categoryListeners |-> categoryListeners, nearbyResults |-> nearbyResults,
     inflightNearby |-> inflightNearby, nearbySeq |-> nearbySeq]

\* the state after a handler: every variable takes its field of s
Becomes(s) ==
    /\ userLocation' = s.userLocation
    /\ watchId' = s.watchId
    /\ destinationMarker' = s.destinationMarker
    /\ routeLayer' = s.routeLayer
    /\ markersOnMap' = s.markersOnMap
    /\ polylinesOnMap' = s.polylinesOnMap
    /\ currentRoute' = s.currentRoute
    /\ travelMode' = s.travelMode
    /\ routeSummary' = s.routeSummary
    /\ panelHidden' = s.panelHidden
    /\ initialized' = s.initialized
    /\ locationPermissionGranted' = s.locationPermissionGranted
    /\ stLastLocation' = s.stLastLocation
    /\ stTravelMode' = s.stTravelMode
    /\ lastToast' = s.lastToast
    /\ searchTimeout' = s.searchTimeout
    /\ currentResults' = s.currentResults
    /\ renderedResults' = s.renderedResults
    /\ resultsHidden' = s.resultsHidden
    /\ hidden' = s.hidden
    /\ geoSupported' = s.geoSupported
    /\ pendingFixes' = s.pendingFixes
    /\ activeWatches' = s.activeWatches
    /\ watchSeq' = s.watchSeq
    /\ inflightRoutes' = s.inflightRoutes
    /\ routeSeq' = s.routeSeq
    /\ timers' = s.timers
    /\ timerSeq' = s.timerSeq
    /\ inflightSearches' = s.inflightSearches
    /\ searchSeq' = s.searchSeq
    /\ raised' = s.raised
    /\ latestRoute' = s.latestRoute
    /\ routeSnapshot' = s.routeSnapshot
    /\ trackedAtHide' = s.trackedAtHide
    /\ latestSearch' = s.latestSearch
    /\ stRecent' = s.stRecent
    /\ stFavorites' = s.stFavorites
    /\ stItems' = s.stItems
    /\ summaryText' = s.summaryText
    /\ mapView' = s.mapView
    /\ inflightGeocodes' = s.inflightGeocodes
    /\ geocodeSeq' = s.geocodeSeq
    /\ clock' = s.clock
    /\ returned' = s.returned
    /\ queryShort' = s.queryShort
    /\ measureMarkers' = s.measureMarkers
    /\ measureLine' = s.measureLine
    /\ measureHandlers' = s.measureHandlers
    /\ nearbyModalHidden' = s.nearbyModalHidden
    /\ categoryListeners' = s.categoryListeners
    /\ nearbyResults' = s.nearbyResults
    /\ inflightNearby' = s.inflightNearby
    /\ nearbySeq' = s.nearbySeq

(***************************************************************************)
(* Storage: localStorage behind try/catch.  ok is whether setItem          *)
(* succeeds (it throws when the quota is exceeded, and set returns false). *)
(***************************************************************************)
WriteOutcomes == {TRUE}

\* the keys of KEYS whose items the model keeps in stItems
ItemKeys == {"mapverse_theme", "mapverse_map_layer"}

\* JSON.stringify: the item is the JSON text of the value; an object that
\* refers to itself has none and stringify throws
Serializable(value) == "cyclic" \notin DOMAIN value
Stringify(value) == [json |-> value]

\* JSON.parse: the value of a JSON text; any other text makes parse throw
Parseable(item) == "json" \in DOMAIN item
Parse(item) == item.json

\* Storage.get; throws is whether localStorage.getItem throws.  The result
\* is left in returned.
get(s, key, defaultValue, throws) ==
    LET item == s.stItems[key]
    IN  IF throws \/ item = NULL \/ ~Parseable(item)
        THEN [s EXCEPT !.returned = [value |-> defaultValue]]
        ELSE [s EXCEPT !.returned = [value |-> Parse(item)]]

\* a set with no catch around the write
setUncaught(s, key, value, throws) ==
    IF ~Serializable(value) \/ throws
    THEN [s EXCEPT !.raised = TRUE]
    ELSE [s EXCEPT !.stItems[key] = Stringify(value),
                   !.returned = [success |-> TRUE]]

\* Storage.set; throws is whether localStorage.setItem throws
set(s, key, value, throws) ==
    IF ~Serializable(value) \/ throws
    THEN [s EXCEPT !.returned = [success |-> FALSE]]
    ELSE [s EXCEPT !.stItems[key] = Stringify(value),
                   !.returned = [success |-> TRUE]]

\* Storage.remove; throws is whether localStorage.removeItem throws
remove(s, key, throws) ==
    IF throws
    THEN [s EXCEPT !.returned = [success |-> FALSE]]
    ELSE [s EXCEPT !.stItems[key] = NULL, !.returned = [success |-> TRUE]]

getLastLocation(s) == s.stLastLocation

setLastLocation(s, location, ok) ==
    IF ok
    THEN [s EXCEPT !.stLastLocation = [lat |-> location.lat, lng |-> location.lng]]
    ELSE s

getTravelMode(s) == IF s.stTravelMode = NULL THEN "driving" ELSE s.stTravelMode.v

setTravelMode(s, mode, ok) ==
    IF ok THEN [s EXCEPT !.stTravelMode = [v |-> mode]] ELSE s

\* Array.prototype.slice(0, n)
Slice(list, n) == SubSeq(list, 1, IF Len(list) < n THEN Len(list) ELSE n)

\* location.address || '': a location with no address is stored with ''
AddressOrEmpty(location) ==
    IF "address" \in DOMAIN location THEN location.address ELSE <<>>

getRecentSearches(s, limit) == Slice(s.stRecent, limit)

\* an addRecentSearch that keeps the entries of the coordinate it adds
addRecentSearchKeepingDuplicate(s, search, ok) ==
    LET recent == getRecentSearches(s, RecentCap)
        recentItem == [id |-> s.clock, name |-> search.name, lat |-> search.lat,
                       lng |-> search.lng,
                       address |-> AddressOrEmpty(search),
                       timestamp |-> s.clock]
    IN  IF ok
        THEN [s EXCEPT !.stRecent = Slice(<<recentItem>> \o recent, RecentCap)]
        ELSE s

\* an addRecentSearch that cuts the list before it puts the new entry in front
addRecentSearchCutFirst(s, search, ok) ==
    LET recent == getRecentSearches(s, RecentCap)
        Differs(item) == ~(item.lat = search.lat /\ item.lng = search.lng)
        recentItem == [id |-> s.clock, name |-> search.name, lat |-> search.lat,
                       lng |-> search.lng,
                       address |-> AddressOrEmpty(search),
                       timestamp |-> s.clock]
    IN  IF ok
        THEN [s EXCEPT !.stRecent =
                          <<recentItem>> \o Slice(SelectSeq(recent, Differs), RecentCap)]
        ELSE s

\* id and timestamp are both read from the clock: Date.now() and
\* new Date().toISOString()
addRecentSearch(s, search, ok) ==
    LET recent == getRecentSearches(s, RecentCap)
        Differs(item) == ~(item.lat = search.lat /\ item.lng = search.lng)
        recentItem == [id |-> s.clock, name |-> search.name, lat |-> search.lat,
                       lng |-> search.lng,
                       address |-> AddressOrEmpty(search),
                       timestamp |-> s.clock]
    IN  IF ok
        THEN [s EXCEPT !.stRecent =
                          Slice(<<recentItem>> \o SelectSeq(recent, Differs), RecentCap)]
        ELSE s

getFavorites(s) == s.stFavorites

\* id and createdAt are both read from the clock
addFavorite(s, location, ok) ==
    LET favorites == getFavorites(s)
        favorite == [id |-> s.clock, name |-> location.name, lat |-> location.lat,
                     lng |-> location.lng, address |-> AddressOrEmpty(location),
                     createdAt |-> s.clock]
    IN  IF ok THEN [s EXCEPT !.stFavorites = <<favorite>> \o favorites] ELSE s

\* a removeFavorite that also drops the favorites added before the one named
removeFavoriteAndOlder(s, id, ok) ==
    LET favorites == getFavorites(s)
        Newer(fav) == fav.id > id
    IN  IF ok THEN [s EXCEPT !.stFavorites = SelectSeq(favorites, Newer)] ELSE s

removeFavorite(s, id, ok) ==
    LET favorites == getFavorites(s)
        Other(fav) == fav.id # id
    IN  IF ok THEN [s EXCEPT !.stFavorites = SelectSeq(favorites, Other)] ELSE s

clearRecentSearches(s, ok) == IF ok THEN [s EXCEPT !.stRecent = <<>>] ELSE s

(***************************************************************************)
(* UI and the Leaflet map.                                                 *)
(***************************************************************************)
\* map.setView: the viewport is centred on the point
setView(s, lat, lng) == [s EXCEPT !.mapView = [lat |-> lat, lng |-> lng]]

\* map.fitBounds on the bounds of a polyline: the viewport shows the route
fitBounds(s, route) == [s EXCEPT !.mapView = [bounds |-> route]]

showToast(s, message) == [s EXCEPT !.lastToast = message]

\* map.removeLayer(layer): Leaflet stamps the layer, so null raises a TypeError
removeMarker(s, layer) ==
    IF layer = NULL
    THEN [s EXCEPT !.raised = TRUE]
    ELSE [s EXCEPT !.markersOnMap = @ - 1]

removePolyline(s, layer) ==
    IF layer = NULL
    THEN [s EXCEPT !.raised = TRUE]
    ELSE [s EXCEPT !.polylinesOnMap = @ - 1]

(***************************************************************************)
(* The geolocation source.                                                 *)
(***************************************************************************)
\* navigator.geolocation.clearWatch(id)
clearWatch(s, id) == [s EXCEPT !.activeWatches = @ \ {id}]

\* this.watchId = navigator.geolocation.watchPosition(...): a fresh id,
\* greater than zero; without navigator.geolocation the call raises a TypeError
watchPosition(s) ==
    IF ~s.geoSupported
    THEN [s EXCEPT !.raised = TRUE]
    ELSE [s EXCEPT !.watchSeq = @ + 1,
                   !.activeWatches = @ \cup {s.watchSeq + 1},
                   !.watchId = s.watchSeq + 1]

(***************************************************************************)
(* The routing service.                                                    *)
(***************************************************************************)
\* the properties every object literal inherits from Object.prototype
ObjectPrototypeKeys ==
    {"constructor", "toString", "toLocaleString", "valueOf", "hasOwnProperty",
     "isPrototypeOf", "propertyIsEnumerable", "__proto__"}

\* the text a template literal gives for the inherited property key
InheritedText(key) ==
    CASE key = "constructor" -> "function Object() { [native code] }"
      [] key = "__proto__" -> "[object Object]"
      [] OTHER -> "function " \o key \o "() { [native code] }"

\* profiles[this.travelMode] || 'car', as the URL's template literal prints it:
\* the lookup finds the three own properties, then the inherited ones, which
\* are all truthy
ProfileOf(mode) ==
    CASE mode = "driving" -> "car"
      [] mode = "walking" -> "foot"
      [] mode = "cycling" -> "bike"
      [] mode \in ObjectPrototypeKeys -> InheritedText(mode)
      [] OTHER -> "car"

\* data.routes[0] of a successful response: the route the service computes
\* for the profile and the endpoints of the request's URL
\* with its length in metres and its time in seconds; above tells, for a
\* length that ends in 50 metres, whether the double that distance / 1000
\* evaluates to lies above the decimal number
RouteOf(req) ==
    [profile |-> req.profile, start |-> req.start, end |-> req.end,
     distance |-> 1000 * req.end.lat, duration |-> 120 * req.end.lat,
     above |-> FALSE]

(***************************************************************************)
(* MapModule.                                                              *)
(***************************************************************************)
drawRoute(s, route) ==
    LET s1 == IF s.routeLayer # NULL THEN removePolyline(s, s.routeLayer) ELSE s
    IN  fitBounds([s1 EXCEPT !.routeLayer = route, !.polylinesOnMap = @ + 1], route)

\* a clearRoute that removes the polyline and forgets the destination marker
MapClearRouteKeepingMarker(s) ==
    IF s.routeLayer # NULL
    THEN [removePolyline(s, s.routeLayer) EXCEPT !.routeLayer = NULL]
    ELSE s

\* a clearRoute that removes both layers without testing them for null
MapClearRouteUnguarded(s) ==
    LET s1 == [removePolyline(s, s.routeLayer) EXCEPT !.routeLayer = NULL]
    IN  [removeMarker(s1, s1.destinationMarker) EXCEPT !.destinationMarker = NULL]

MapClearRoute(s) ==
    LET s1 == IF s.routeLayer # NULL
              THEN [removePolyline(s, s.routeLayer) EXCEPT !.routeLayer = NULL]
              ELSE s
    IN  IF s1.destinationMarker # NULL
        THEN [removeMarker(s1, s1.destinationMarker) EXCEPT !.destinationMarker = NULL]
        ELSE s1

(***************************************************************************)
(* Routing.                                                                *)
(***************************************************************************)
\* getRoute up to its first await: the toast, the endpoints, the request
getRoute(s, startLat, startLng, endLat, endLng) ==
    LET s1 == showToast(s, "Calculating route...")
        s2 == [s1 EXCEPT !.currentRoute =
                            [start |-> [lat |-> startLat, lng |-> startLng],
                             end |-> [lat |-> endLat, lng |-> endLng]]]
        req == [id |-> s.routeSeq + 1,
                profile |-> ProfileOf(s2.travelMode),
                start |-> [lat |-> startLat, lng |-> startLng],
                end |-> [lat |-> endLat, lng |-> endLng]]
    IN  [s2 EXCEPT !.routeSeq = @ + 1, !.inflightRoutes = @ \cup {req}]

\* the decimal digits String(n) writes for a non-negative integer
Digits == <<"0", "1", "2", "3", "4", "5", "6", "7", "8", "9">>

RECURSIVE ToDigits(_)
ToDigits(n) ==
    IF n < 10
    THEN <<Digits[n + 1]>>
    ELSE ToDigits(n \div 10) \o <<Digits[(n % 10) + 1]>>

\* (route.distance / 1000).toFixed(1): the decimal with one fraction digit
\* nearest to the double, which for a length ending in 50 metres is the
\* neighbour on the side the double lies
ToFixed1(route) ==
    LET tenths == IF route.distance % 100 > 50
                     \/ (route.distance % 100 = 50 /\ route.above)
                  THEN (route.distance \div 100) + 1
                  ELSE route.distance \div 100
    IN  ToDigits(tenths \div 10) \o <<".">> \o ToDigits(tenths % 10)

\* Math.ceil(x / 60)
CeilMinutes(seconds) == (seconds + 59) \div 60

displayRouteSummary(s, distance, duration) ==
    LET hours == duration \div 60
        minutes == duration % 60
        durationText == IF hours > 0
                        THEN ToDigits(hours) \o <<"h", " ">> \o ToDigits(minutes)
                                 \o <<"m", "i", "n">>
                        ELSE ToDigits(minutes) \o <<" ", "m", "i", "n">>
    IN  [s EXCEPT !.summaryText = [distance |-> distance \o <<" ", "k", "m">>,
                                   duration |-> durationText]]

\* a displayRoute that drops the seconds of a started minute
displayRouteRoundingDown(s, route) ==
    LET s1 == drawRoute(s, route)
        s2 == displayRouteSummary(s1, ToFixed1(route), route.duration \div 60)
        s3 == [s2 EXCEPT !.routeSummary = route, !.panelHidden = FALSE]
    IN  showToast(s3, "Route calculated")

displayRoute(s, route) ==
    LET s1 == drawRoute(s, route)
        distance == ToFixed1(route)
        duration == CeilMinutes(route.duration)
        s2 == displayRouteSummary(s1, distance, duration)
        s3 == [s2 EXCEPT !.routeSummary = route, !.panelHidden = FALSE]
    IN  showToast(s3, "Route calculated")

\* a getRoute that does not test the routes list for being empty
getRouteSettledDrawingEmpty(s, req, outcome) ==
    LET s1 == [s EXCEPT !.inflightRoutes = @ \ {req}]
    IN  IF outcome \in {"ok", "empty"}
        THEN displayRoute(s1, RouteOf(req))
        ELSE showToast(s1, "Failed to calculate route")

\* getRoute after its awaits: the response of req has arrived with outcome
getRouteSettled(s, req, outcome) ==
    LET s1 == [s EXCEPT !.inflightRoutes = @ \ {req}]
    IN  IF outcome = "ok"
        THEN displayRoute(s1, RouteOf(req))
        ELSE showToast(s1, "Failed to calculate route")

\* a clearRoute that removes the layers and keeps the endpoints
RoutingClearRouteKeepingEndpoints(s) ==
    LET s2 == MapClearRoute(s)
    IN  [s2 EXCEPT !.panelHidden = TRUE]

RoutingClearRoute(s) ==
    LET s1 == [s EXCEPT !.currentRoute = NULL]
        s2 == MapClearRoute(s1)
    IN  [s2 EXCEPT !.panelHidden = TRUE]

\* a click listener that asks for a route whenever a user location and a
\* destination marker exist, whether or not a route was requested before
travelModeClickAnyDestination(s, mode, ok) ==
    LET s1 == [s EXCEPT !.travelMode = mode]
        s2 == setTravelMode(s1, s1.travelMode, ok)
    IN  IF s2.userLocation # NULL /\ s2.destinationMarker # NULL
        THEN getRoute(s2, s2.userLocation.lat, s2.userLocation.lng,
                      s2.destinationMarker.lat, s2.destinationMarker.lng)
        ELSE s2

\* the click listener of a .travel-mode-btn whose data-mode is mode
travelModeClick(s, mode, ok) ==
    LET s1 == [s EXCEPT !.travelMode = mode]
        s2 == setTravelMode(s1, s1.travelMode, ok)
    IN  IF s2.currentRoute # NULL
        THEN getRoute(s2, s2.currentRoute.start.lat, s2.currentRoute.start.lng,
                      s2.currentRoute.end.lat, s2.currentRoute.end.lng)
        ELSE s2

RoutingInit(s) == [s EXCEPT !.travelMode = getTravelMode(s)]

(***************************************************************************)
(* MapModule, continued.                                                   *)
(***************************************************************************)
loadLastKnownLocation(s) ==
    LET lastLocation == getLastLocation(s)
    IN  IF lastLocation # NULL
        THEN showToast(setView([s EXCEPT !.userLocation =
                                   [lat |-> lastLocation.lat, lng |-> lastLocation.lng]],
                               lastLocation.lat, lastLocation.lng),
                       "Showing last known location")
        ELSE s

getUserLocation(s) ==
    IF ~s.geoSupported
    THEN loadLastKnownLocation(showToast(s, "Geolocation not supported"))
    ELSE [s EXCEPT !.pendingFixes = @ + 1]

\* a watchLocation that subscribes without cancelling the watch it holds
watchLocationKeepingOld(s) == watchPosition(s)

watchLocation(s) ==
    LET s1 == IF s.watchId # 0 THEN clearWatch(s, s.watchId) ELSE s
    IN  watchPosition(s1)

\* a watch callback that does not save the position
watchCallbackUnsaved(s, position, ok) ==
    [s EXCEPT !.userLocation = [lat |-> position.lat, lng |-> position.lng]]

\* the success callback watchLocation registers
watchCallback(s, position, ok) ==
    LET s1 == [s EXCEPT !.userLocation = [lat |-> position.lat, lng |-> position.lng]]
    IN  setLastLocation(s1, s1.userLocation, ok)

\* a success callback that asks for the route to a waiting destination
handleLocationSuccessRouting(s, position, ok) ==
    LET s1 == [s EXCEPT !.userLocation = [lat |-> position.lat, lng |-> position.lng]]
        s2 == setLastLocation(s1, s1.userLocation, ok)
        s3 == showToast(setView(s2, position.lat, position.lng), "Location found")
        s4 == watchLocation(s3)
    IN  IF s4.destinationMarker # NULL /\ s4.currentRoute = NULL
        THEN getRoute(s4, position.lat, position.lng,
                      s4.destinationMarker.lat, s4.destinationMarker.lng)
        ELSE s4

handleLocationSuccess(s, position, ok) ==
    LET s1 == [s EXCEPT !.userLocation = [lat |-> position.lat, lng |-> position.lng]]
        s2 == setLastLocation(s1, s1.userLocation, ok)
        s3 == showToast(setView(s2, position.lat, position.lng), "Location found")
    IN  watchLocation(s3)

LocationErrorMessage(code) ==
    CASE code = "PERMISSION_DENIED" -> "Location permission denied"
      [] code = "POSITION_UNAVAILABLE" -> "Location unavailable"
      [] code = "TIMEOUT" -> "Location request timeout"
      [] OTHER -> "Unable to get location"

\* a handleLocationError that reports the error and does not fall back
handleLocationErrorWithoutFallback(s, code) ==
    showToast(s, LocationErrorMessage(code))

handleLocationError(s, code) ==
    loadLastKnownLocation(showToast(s, LocationErrorMessage(code)))

centerOnUser(s) ==
    IF s.userLocation # NULL
    THEN showToast(setView(s, s.userLocation.lat, s.userLocation.lng),
                   "Centered on your location")
    ELSE getUserLocation(s)

\* a setDestination that adds its marker without removing the one on the map
setDestinationKeepingMarker(s, lat, lng) ==
    LET s2 == [s EXCEPT !.destinationMarker = [lat |-> lat, lng |-> lng],
                        !.markersOnMap = @ + 1]
        s3 == IF s2.userLocation # NULL
              THEN getRoute(s2, s2.userLocation.lat, s2.userLocation.lng, lat, lng)
              ELSE s2
    IN  showToast(s3, "Destination set")

\* a setDestination that asks for the route back from the destination
setDestinationReversed(s, lat, lng) ==
    LET s1 == IF s.destinationMarker # NULL
              THEN removeMarker(s, s.destinationMarker)
              ELSE s
        s2 == [s1 EXCEPT !.destinationMarker = [lat |-> lat, lng |-> lng],
                         !.markersOnMap = @ + 1]
        s3 == IF s2.userLocation # NULL
              THEN getRoute(s2, lat, lng, s2.userLocation.lat, s2.userLocation.lng)
              ELSE s2
    IN  showToast(s3, "Destination set")

setDestination(s, lat, lng) ==
    LET s1 == IF s.destinationMarker # NULL
              THEN removeMarker(s, s.destinationMarker)
              ELSE s
        s2 == [s1 EXCEPT !.destinationMarker = [lat |-> lat, lng |-> lng],
                         !.markersOnMap = @ + 1]
        s3 == IF s2.userLocation # NULL
              THEN getRoute(s2, s2.userLocation.lat, s2.userLocation.lng, lat, lng)
              ELSE s2
    IN  showToast(s3, "Destination set")

(***************************************************************************)
(* Search.                                                                 *)
(***************************************************************************)
\* String.prototype.trim on a sequence of characters
RECURSIVE TrimStart(_)
TrimStart(q) == IF q # <<>> /\ Head(q) = " " THEN TrimStart(Tail(q)) ELSE q

RECURSIVE TrimEnd(_)
TrimEnd(q) ==
    IF q # <<>> /\ q[Len(q)] = " " THEN TrimEnd(SubSeq(q, 1, Len(q) - 1)) ELSE q

Trim(q) == TrimEnd(TrimStart(q))

\* window.setTimeout and clearTimeout
setTimeout(s, kind, query) ==
    [s EXCEPT !.timerSeq = @ + 1,
              !.timers = @ \cup {[id |-> s.timerSeq + 1, kind |-> kind, query |-> query]}]

clearTimeout(s, id) == [s EXCEPT !.timers = {tm \in @ : tm.id # id}]

showSearchResults(s) == [s EXCEPT !.resultsHidden = FALSE]

hideSearchResults(s) == [s EXCEPT !.resultsHidden = TRUE]

\* Text is a sequence of pieces, a comma being a piece of its own.
\* text.split(',')[0]: the pieces before the first comma
RECURSIVE SplitFirst(_)
SplitFirst(text) ==
    IF text = <<>> \/ Head(text) = ","
    THEN <<>>
    ELSE <<Head(text)>> \o SplitFirst(Tail(text))

\* parseInt / parseFloat of a text of decimal digits
RECURSIVE ParseDigits(_, _)
ParseDigits(text, acc) ==
    IF text = <<>>
    THEN acc
    ELSE ParseDigits(Tail(text),
                     10 * acc + (CHOOSE d \in 0..9 : Digits[d + 1] = Head(text)))

ParseInt(text) == ParseDigits(text, 0)

ParseFloat(text) == ParseDigits(text, 0)

\* limit=5 in the search URL
ResultLimit == 5

\* how many results a response may hold: the service is asked for at most
\* ResultLimit, and nothing in the page holds it to that
ResponseSizes == (0..MaxResults) \cup {ResultLimit + 1}

\* the i-th result the geocoder gives for query
\* (lat and lon are decimal texts in the JSON the geocoder sends)
ResultOf(query, i) ==
    [display_name |-> query \o <<",", " ", "U", "S">>,
     lat |-> ToDigits(10 + i), lon |-> ToDigits(10 + i)]

\* the body of a successful response that holds n results
ResponseOf(req, n) == [i \in 1..n |-> ResultOf(req.query, i)]

\* the items displaySearchResults writes into #search-results
RenderedItems(results) ==
    IF Len(results) = 0
    THEN << [text |-> "No results found"] >>
    ELSE [i \in 1..Len(results) |->
            [index |-> ToDigits(i - 1), name |-> SplitFirst(results[i].display_name)]]

displaySearchResults(s, results) ==
    showSearchResults([s EXCEPT !.renderedResults = RenderedItems(results)])

\* a viewbox of plus and minus one whole degree
ViewboxOfWholeDegree(userLoc) ==
    IF userLoc # NULL
    THEN [west |-> 2 * userLoc.lng - 2, south |-> 2 * userLoc.lat - 2,
          east |-> 2 * userLoc.lng + 2, north |-> 2 * userLoc.lat + 2]
    ELSE NULL

\* the viewbox parameter, in half degrees: userLocation plus and minus 0.5
ViewboxOf(userLoc) ==
    IF userLoc # NULL
    THEN [west |-> 2 * userLoc.lng - 1, south |-> 2 * userLoc.lat - 1,
          east |-> 2 * userLoc.lng + 1, north |-> 2 * userLoc.lat + 1]
    ELSE NULL

\* performSearch up to its first await: the request is sent
performSearch(s, query) ==
    LET req == [id |-> s.searchSeq + 1, query |-> query,
                viewbox |-> ViewboxOf(s.userLocation)]
    IN  [s EXCEPT !.searchSeq = @ + 1, !.inflightSearches = @ \cup {req}]

\* a performSearch that searches again when its request failed
performSearchSettledRetrying(s, req, outcome, data) ==
    LET s1 == [s EXCEPT !.inflightSearches = @ \ {req}]
    IN  IF outcome = "ok"
        THEN displaySearchResults([s1 EXCEPT !.currentResults = data], data)
        ELSE performSearch(hideSearchResults(s1), req.query)

\* performSearch after its awaits: the response of req has arrived
performSearchSettled(s, req, outcome, data) ==
    LET s1 == [s EXCEPT !.inflightSearches = @ \ {req}]
    IN  IF outcome = "ok"
        THEN displaySearchResults([s1 EXCEPT !.currentResults = data], data)
        ELSE hideSearchResults(s1)

\* an input listener that sets its timer without clearing the pending one
searchInputKeepingTimer(s, raw) ==
    LET query == Trim(raw)
        s1 == [s EXCEPT !.queryShort = Len(query) < 3]
    IN  IF Len(query) < 3
        THEN hideSearchResults(s1)
        ELSE [setTimeout(s1, "search", query) EXCEPT !.searchTimeout = s1.timerSeq + 1]

\* the input listener of #search-input, whose value is raw
searchInput(s, raw) ==
    LET query == Trim(raw)
        s0 == [s EXCEPT !.queryShort = Len(query) < 3]
        s1 == IF s0.searchTimeout # 0 THEN clearTimeout(s0, s0.searchTimeout) ELSE s0
    IN  IF Len(query) < 3
        THEN hideSearchResults(s1)
        ELSE [setTimeout(s1, "search", query) EXCEPT !.searchTimeout = s1.timerSeq + 1]

\* the blur listener: hide the list 200 ms later
searchBlur(s) == setTimeout(s, "blur", <<>>)

searchFocus(s) ==
    IF Len(s.currentResults) > 0 THEN showSearchResults(s) ELSE s

(***************************************************************************)
(* MapModule: the measuring tool.  The closures startMeasuring registers   *)
(* differ in nothing but their identity, so their number stands for them;  *)
(* a map click runs handleMapClick and then every closure registered when  *)
(* the click is fired, in the order of registration.                       *)
(***************************************************************************)
clearMeasurements(s) == [s EXCEPT !.measureMarkers = <<>>, !.measureLine = NULL]

addMeasurePoint(s, latlng) ==
    LET s1 == [s EXCEPT !.measureMarkers = Append(@, latlng)]
    IN  IF Len(s1.measureMarkers) = 2
        THEN [s1 EXCEPT !.measureLine = s1.measureMarkers]
        ELSE s1

\* the toast names the distance, which the model leaves out
showMeasureResult(s) ==
    IF Len(s.measureMarkers) = 2
    THEN setTimeout(showToast(s, "Distance"), "measure", <<>>)
    ELSE s

\* one closure of startMeasuring, run for a click at latlng
measureHandler(s, latlng) ==
    LET s1 == addMeasurePoint(s, latlng)
    IN  IF Len(s1.measureMarkers) = 2
        THEN showMeasureResult([s1 EXCEPT !.measureHandlers = @ - 1])
        ELSE s1

startMeasuring(s) ==
    LET s1 == clearMeasurements(s)
        s2 == showToast(s1, "Click two points to measure distance")
    IN  [s2 EXCEPT !.measureHandlers = @ + 1]

handleMapClick(s, latlng) == setDestination(s, latlng.lat, latlng.lng)

\* the listeners of the map's click event, n measuring closures among them
RECURSIVE fireMeasureHandlers(_, _, _)
fireMeasureHandlers(s, latlng, n) ==
    IF n = 0
    THEN s
    ELSE fireMeasureHandlers(measureHandler(s, latlng), latlng, n - 1)

mapClick(s, latlng) ==
    fireMeasureHandlers(handleMapClick(s, latlng), latlng, s.measureHandlers)

\* a timer runs its callback
timerFired(s, timer) ==
    LET s1 == [s EXCEPT !.timers = @ \ {timer}]
    IN  IF timer.kind = "search"
        THEN performSearch(s1, timer.query)
        ELSE IF timer.kind = "measure"
             THEN clearMeasurements(s1)
             ELSE hideSearchResults(s1)

\* map.getCenter(): the point of the latest setView, or the middle of the
\* bounds the viewport was fitted to
getCenter(s) ==
    IF "bounds" \in DOMAIN s.mapView
    THEN [lat |-> <<"middle", s.mapView.bounds.start.lat, s.mapView.bounds.end.lat>>,
          lng |-> <<"middle", s.mapView.bounds.start.lng, s.mapView.bounds.end.lng>>]
    ELSE s.mapView

\* what reverseGeocode resolves to once its request has settled
reverseGeocodeSettled(outcome, data) ==
    IF outcome = "ok" /\ "display_name" \in DOMAIN data /\ data.display_name # <<>>
    THEN data.display_name
    ELSE <<"Unknown location">>

\* a selectSearchResult that does not record the pick
selectSearchResultUnrecorded(s, result, ok) ==
    LET lat == ParseFloat(result.lat)
        lon == ParseFloat(result.lon)
        s1 == hideSearchResults(s)
        s2 == setDestination(s1, lat, lon)
    IN  setView(s2, lat, lon)

selectSearchResult(s, result, ok) ==
    LET lat == ParseFloat(result.lat)
        lon == ParseFloat(result.lon)
        name == SplitFirst(result.display_name)
        address == result.display_name
        s1 == hideSearchResults(s)
        s2 == setDestination(s1, lat, lon)
        s3 == addRecentSearch(s2, [name |-> name, lat |-> lat, lng |-> lon,
                                   address |-> address], ok)
    IN  setView(s3, lat, lon)

\* the click listener of #search-results, for a click on the rendered item:
\* the "No results found" item has no data-index, parseInt gives NaN,
\* currentResults[NaN] is undefined and reading its lat raises
searchResultsClick(s, item, ok) ==
    IF "index" \in DOMAIN item /\ ParseInt(item.index) < Len(s.currentResults)
    THEN selectSearchResult(s, s.currentResults[ParseInt(item.index) + 1], ok)
    ELSE [s EXCEPT !.raised = TRUE]

\* the delete button of the favorite whose data-id is dataId
deleteFavoriteClick(s, dataId, ok) ==
    LET id == ParseInt(dataId)
    IN  showToast(removeFavorite(s, id, ok), "Favorite removed")

\* addCurrentLocationAsFavorite up to its await: the centre, the request
addCurrentLocationAsFavorite(s) ==
    LET center == getCenter(s)
        req == [id |-> s.geocodeSeq + 1, lat |-> center.lat, lng |-> center.lng]
    IN  [s EXCEPT !.geocodeSeq = @ + 1, !.inflightGeocodes = @ \cup {req}]

\* an addCurrentLocationAsFavorite that gives up when the lookup fails
addCurrentLocationAsFavoriteSettledOrDropped(s, req, outcome, data, ok) ==
    LET address == reverseGeocodeSettled(outcome, data)
        name == IF SplitFirst(address) # <<>>
                THEN SplitFirst(address)
                ELSE <<"Saved Location">>
        s1 == [s EXCEPT !.inflightGeocodes = @ \ {req}]
    IN  IF outcome = "ok"
        THEN showToast(addFavorite(s1, [name |-> name, lat |-> req.lat,
                                        lng |-> req.lng, address |-> address], ok),
                       "Added to favorites")
        ELSE s1

\* addCurrentLocationAsFavorite from its await on
addCurrentLocationAsFavoriteSettled(s, req, outcome, data, ok) ==
    LET address == reverseGeocodeSettled(outcome, data)
        name == IF SplitFirst(address) # <<>>
                THEN SplitFirst(address)
                ELSE <<"Saved Location">>
        s1 == [s EXCEPT !.inflightGeocodes = @ \ {req}]
        s2 == addFavorite(s1, [name |-> name, lat |-> req.lat, lng |-> req.lng,
                               address |-> address], ok)
    IN  showToast(s2, "Added to favorites")

\* Search.clearRecentSearches
SearchClearRecentSearches(s, ok) ==
    showToast(clearRecentSearches(s, ok), "Recent searches cleared")

(***************************************************************************)
(* MapModule: nearby places.  showNearbyPlaces adds a click listener to    *)
(* every category button, so all buttons carry the same number of them.    *)
(***************************************************************************)
\* data-category of the .category-btn buttons
Categories == {"restaurant", "cafe"}

showModal(s) == [s EXCEPT !.nearbyModalHidden = FALSE]

closeModal(s) == [s EXCEPT !.nearbyModalHidden = TRUE]

showNearbyPlaces(s) == [showModal(s) EXCEPT !.categoryListeners = @ + 1]

\* Search.searchNearby up to its fetch: one request for the amenity around
\* the centre
SearchSearchNearby(s, lat, lng, category) ==
    [s EXCEPT !.nearbySeq = @ + 1,
              !.inflightNearby = @ \cup {[id |-> s.nearbySeq + 1, lat |-> lat,
                                          lng |-> lng, amenity |-> category]}]

\* MapModule.searchNearby up to its await
MapSearchNearby(s, category) ==
    LET center == IF s.userLocation # NULL THEN s.userLocation ELSE getCenter(s)
        s1 == [s EXCEPT !.nearbyResults = <<[text |-> "Searching..."]>>]
    IN  SearchSearchNearby(s1, center.lat, center.lng, category)

\* the click listeners of one category button, n of them
RECURSIVE fireCategoryListeners(_, _, _)
fireCategoryListeners(s, category, n) ==
    IF n = 0
    THEN s
    ELSE fireCategoryListeners(MapSearchNearby(s, category), category, n - 1)

categoryClick(s, category) == fireCategoryListeners(s, category, s.categoryListeners)

\* the i-th place the geocoder gives for a nearby request
PlaceOf(req, i) ==
    [display_name |-> <<req.amenity>>, lat |-> ToDigits(10 + i), lon |-> ToDigits(10 + i)]

\* MapModule.searchNearby after its await: Search.searchNearby resolved to
\* the body of the response, or to [] when the fetch failed; the distance
\* line of an item is left out
MapSearchNearbySettled(s, req, outcome, n) ==
    LET places == IF outcome = "ok" THEN [i \in 1..n |-> PlaceOf(req, i)] ELSE <<>>
        s1 == [s EXCEPT !.inflightNearby = @ \ {req}]
    IN  IF Len(places) = 0
        THEN [s1 EXCEPT !.nearbyResults = <<[text |-> "No places found nearby"]>>]
        ELSE [s1 EXCEPT !.nearbyResults =
                 [i \in 1..Len(places) |->
                     [lat |-> places[i].lat, lng |-> places[i].lon,
                      name |-> places[i].display_name]]]

\* the click listener of a .nearby-result-item
nearbyResultClick(s, item) ==
    closeModal(setDestination(s, ParseFloat(item.lat), ParseFloat(item.lng)))

(***************************************************************************)
(* App.                                                                    *)
(***************************************************************************)
\* App.init after waitForDOM; shared is the place of a ?lat=..&lng=.. link,
\* or NULL when the URL has none
AppInitBody(s, shared) ==
    LET s0 == setView(s, DefaultCenter.lat, DefaultCenter.lng)
        s1 == getUserLocation(s0)                  \* MapModule.init
        s2 == RoutingInit(s1)
        s3 == IF shared # NULL                     \* checkURLParams
              THEN showToast(setDestination(setView(s2, shared.lat, shared.lng),
                                            shared.lat, shared.lng),
                             "Showing shared location")
              ELSE s2
    IN  [s3 EXCEPT !.initialized = TRUE]

allowLocationClick(s) ==
    [getUserLocation(s) EXCEPT !.locationPermissionGranted = TRUE]

denyLocationClick(s) ==
    showToast(loadLastKnownLocation(s), "You can enable location later")

\* handleVisibilityChange, run once document.hidden has its new value
handleVisibilityChange(s) ==
    IF s.hidden
    THEN IF s.watchId # 0
         THEN [clearWatch(s, s.watchId) EXCEPT !.watchId = 0]
         ELSE s
    ELSE IF s.locationPermissionGranted
         THEN watchLocation(s)
         ELSE s

(***************************************************************************)
(* History.  A handler invokes getRoute at most once; when it did, the     *)
(* Route state it found is noted until the response arrives or another     *)
(* operation changes the Route state, and the outcome of the latest        *)
(* invocation is noted once its response has arrived.                      *)
(***************************************************************************)
Noted(s, t) ==
    IF t.routeSeq = s.routeSeq
    THEN t
    ELSE [t EXCEPT
            !.latestRoute = NULL,
            !.routeSnapshot =
                [id |-> t.routeSeq, currentRoute |-> s.currentRoute,
                 routeLayer |-> s.routeLayer]]

\* the response of req has been handled, taking s to t
Settled(s, t, req, outcome) ==
    [t EXCEPT
        !.latestRoute =
            IF req.id = s.routeSeq
            THEN [route |-> RouteOf(req), ok |-> outcome = "ok"]
            ELSE s.latestRoute,
        !.routeSnapshot =
            IF s.routeSnapshot # NULL /\ (s.routeSnapshot.id = req.id \/ outcome = "ok")
            THEN NULL
            ELSE s.routeSnapshot]

\* the bounds on what one behaviour starts
Within(t) ==
    /\ t.routeSeq <= MaxRouteRequests
    /\ t.watchSeq <= MaxWatches
    /\ t.pendingFixes <= MaxFixes
    /\ t.searchSeq <= MaxSearchRequests
    /\ t.timerSeq <= MaxTimers
    /\ t.geocodeSeq <= MaxGeocodes
    /\ t.measureHandlers <= MaxMeasureHandlers
    /\ Len(t.measureMarkers) <= MaxMeasurePoints
    /\ t.categoryListeners <= MaxNearbyOpenings
    /\ t.nearbySeq <= MaxNearbyRequests

Step(t) == Within(t) /\ Becomes(Noted(Cur, t))

(***************************************************************************)
(* The initial states: the module objects as written, a hidden result     *)
(* list, and whatever an earlier session left in localStorage.             *)
(***************************************************************************)
Init ==
    /\ userLocation = NULL
    /\ watchId = 0
    /\ destinationMarker = NULL
    /\ routeLayer = NULL
    /\ markersOnMap = 0
    /\ polylinesOnMap = 0
    /\ currentRoute = NULL
    /\ travelMode = "driving"
    /\ routeSummary = NULL
    /\ panelHidden = TRUE
    /\ initialized = FALSE
    /\ locationPermissionGranted = FALSE
    /\ stLastLocation \in {NULL} \cup Positions
    /\ stTravelMode \in StoredModes
    /\ lastToast = ""
    /\ searchTimeout = 0
    /\ currentResults = <<>>
    /\ renderedResults = <<>>
    /\ resultsHidden = TRUE
    /\ hidden = FALSE
    /\ geoSupported \in BOOLEAN
    /\ pendingFixes = 0
    /\ activeWatches = {}
    /\ watchSeq = 0
    /\ inflightRoutes = {}
    /\ routeSeq = 0
    /\ timers = {}
    /\ timerSeq = 0
    /\ inflightSearches = {}
    /\ searchSeq = 0
    /\ raised = FALSE
    /\ latestRoute = NULL
    /\ routeSnapshot = NULL
    /\ trackedAtHide = FALSE
    /\ latestSearch = NULL
    /\ stRecent \in StoredRecents
    /\ stFavorites \in StoredFavorites
    /\ stItems \in [ItemKeys -> StoredTexts]
    /\ summaryText = NULL
    /\ mapView = NULL
    /\ inflightGeocodes = {}
    /\ geocodeSeq = 0
    /\ clock = SessionStart
    /\ returned = NULL
    /\ queryShort = TRUE
    /\ measureMarkers = <<>>
    /\ measureLine = NULL
    /\ measureHandlers = 0
    /\ nearbyModalHidden = TRUE
    /\ categoryListeners = 0
    /\ nearbyResults = <<>>
    /\ inflightNearby = {}
    /\ nearbySeq = 0

\* the initial states in which no travel mode was ever persisted
NothingStored ==
    /\ stRecent = <<>>
    /\ stFavorites = <<>>
    /\ stItems = [key \in ItemKeys |-> NULL]

InitFresh == Init /\ stTravelMode = NULL /\ NothingStored

(***************************************************************************)
(* Actions of the location and route core.                                 *)
(***************************************************************************)
\* the user can act on the page once it is set up and in the foreground
Interactive == initialized /\ ~hidden

\* App.init on a page opened through a link that may share a place
AppInit ==
    /\ ~initialized
    /\ \E shared \in {NULL} \cup Places : Step(AppInitBody(Cur, shared))

\* App.init on a page opened with no parameters in its URL
AppInitPlain ==
    /\ ~initialized
    /\ Step(AppInitBody(Cur, NULL))

\* getCurrentPosition calls its success callback
FixSuccess ==
    /\ pendingFixes > 0
    /\ \E position \in Positions, ok \in WriteOutcomes :
          Step(handleLocationSuccess([Cur EXCEPT !.pendingFixes = @ - 1], position, ok))

\* getCurrentPosition calls its error callback
FixError ==
    /\ pendingFixes > 0
    /\ \E code \in FixErrors :
          Step(handleLocationError([Cur EXCEPT !.pendingFixes = @ - 1], code))

\* an active watch reports a position
WatchUpdate ==
    \E id \in activeWatches, position \in Positions, ok \in WriteOutcomes :
        Step(watchCallback(Cur, position, ok))

AllowLocation == Interactive /\ Step(allowLocationClick(Cur))

DenyLocation == Interactive /\ Step(denyLocationClick(Cur))

MyLocation == Interactive /\ Step(centerOnUser(Cur))

\* handleMapClick, and every other caller of setDestination
SetDestination(place) == Interactive /\ Step(setDestination(Cur, place.lat, place.lng))

SelectTravelMode(mode, ok) == Interactive /\ Step(travelModeClick(Cur, mode, ok))

ClearRoute ==
    /\ Interactive
    /\ Step([RoutingClearRoute(Cur) EXCEPT !.latestRoute = NULL, !.routeSnapshot = NULL])

\* the response of a route request arrives
RouteResponse(req, outcome) ==
    /\ req \in inflightRoutes
    /\ Step(Settled(Cur, getRouteSettled(Cur, req, outcome), req, outcome))

\* the document goes to the background
Hide ==
    /\ initialized
    /\ ~hidden
    /\ Step(handleVisibilityChange([Cur EXCEPT !.hidden = TRUE,
                                               !.trackedAtHide = (watchId # 0)]))

\* the document comes back to the foreground
Show ==
    /\ initialized
    /\ hidden
    /\ Step(handleVisibilityChange([Cur EXCEPT !.hidden = FALSE,
                                               !.trackedAtHide = FALSE]))

(***************************************************************************)
(* Actions of the search box.                                              *)
(***************************************************************************)
SearchInput(raw) == Interactive /\ Step(searchInput(Cur, raw))

SearchBlur == Interactive /\ Step(searchBlur(Cur))

SearchFocus == Interactive /\ Step(searchFocus(Cur))

TimerFires(timer) == timer \in timers /\ Step(timerFired(Cur, timer))

\* the response of a search request arrives; as history, the outcome of the
\* latest performSearch invocation is noted
SearchResponse(req, outcome, n) ==
    /\ req \in inflightSearches
    /\ LET data == IF outcome = "ok" THEN ResponseOf(req, n) ELSE <<>>
       IN  Step([performSearchSettled(Cur, req, outcome, data) EXCEPT
                    !.latestSearch =
                        IF req.id = searchSeq
                        THEN [query |-> req.query, ok |-> outcome = "ok"]
                        ELSE latestSearch])

(***************************************************************************)
(* Actions of the preferences store.                                       *)
(***************************************************************************)
\* a millisecond passes
Tick ==
    /\ clock < SessionStart + MaxTicks
    /\ Step([Cur EXCEPT !.clock = @ + 1])

\* Storage.addRecentSearch is called
AddRecent(search, ok) == Step(addRecentSearch(Cur, search, ok))

\* displayRoute is called with a route of the service
DisplayRoute(route) == Step(displayRoute(Cur, route))

\* Storage.get, Storage.set and Storage.remove are called
StorageGet(key, defaultValue, throws) == Step(get(Cur, key, defaultValue, throws))

StorageSet(key, value, throws) == Step(set(Cur, key, value, throws))

StorageRemove(key, throws) == Step(remove(Cur, key, throws))

\* Storage.addFavorite is called
AddFavorite(location, ok) ==
    /\ Len(stFavorites) < MaxFavorites
    /\ Step(addFavorite(Cur, location, ok))

\* Storage.removeFavorite is called
RemoveFavorite(id, ok) == Step(removeFavorite(Cur, id, ok))

\* the user drags the map
PanMap(center) ==
    /\ Interactive
    /\ mapView # center
    /\ Step(setView(Cur, center.lat, center.lng))

\* the add-favorite button
AddCurrentLocationAsFavorite ==
    /\ Interactive
    /\ Step(addCurrentLocationAsFavorite(Cur))

\* the reverse-geocode request settles
GeocodeResponse(req, outcome, data, ok) ==
    /\ req \in inflightGeocodes
    /\ Step(addCurrentLocationAsFavoriteSettled(Cur, req, outcome, data, ok))

\* the delete button of the i-th favorite of the list; the buttons carry the
\* ids of the persisted list, which every change re-renders
DeleteFavoriteClick(i, ok) ==
    /\ Interactive
    /\ i \in 1..Len(stFavorites)
    /\ Step(deleteFavoriteClick(Cur, ToDigits(stFavorites[i].id), ok))

\* a click on the i-th item of the result list
SearchResultsClick(i, ok) ==
    /\ Interactive
    /\ ~resultsHidden
    /\ i \in 1..Len(renderedResults)
    /\ Step(searchResultsClick(Cur, renderedResults[i], ok))

\* the clear button of the recent list
ClearRecent(ok) == Step(SearchClearRecentSearches(Cur, ok))

\* the click listener of #fab-measure
StartMeasuring == Interactive /\ Step(startMeasuring(Cur))

\* a click on the map
MapClick(place) == Interactive /\ Step(mapClick(Cur, place))

\* the click listener of #fab-nearby
ShowNearbyPlaces == Interactive /\ nearbyModalHidden /\ Step(showNearbyPlaces(Cur))

\* the close button or the backdrop of the nearby-places modal
CloseNearby == Interactive /\ ~nearbyModalHidden /\ Step(closeModal(Cur))

\* one click on the category button whose data-category is category
CategoryClick(category) ==
    Interactive /\ ~nearbyModalHidden /\ Step(categoryClick(Cur, category))

\* the response of a nearby search request arrives
NearbyResponse(req, outcome, n) ==
    req \in inflightNearby /\ Step(MapSearchNearbySettled(Cur, req, outcome, n))

\* a click on the i-th place of the nearby list
NearbyResultClick(i) ==
    /\ Interactive
    /\ ~nearbyModalHidden
    /\ i \in 1..Len(nearbyResults)
    /\ "lat" \in DOMAIN nearbyResults[i]
    /\ Step(nearbyResultClick(Cur, nearbyResults[i]))

(***************************************************************************)
(* Specifications.  The handlers of the location core never read or write  *)
(* the route state and the route handlers never touch the watch, so each   *)
(* part is checked under the operations that act on it.                    *)
(***************************************************************************)
\* the route core: locating, destinations, clearing, route responses; the
\* travel mode is the one Routing.init read from storage
NextRoute ==
    \/ AppInit
    \/ FixSuccess
    \/ FixError
    \/ WatchUpdate
    \/ \E place \in Places : SetDestination(place)
    \/ ClearRoute
    \/ \E req \in inflightRoutes, outcome \in RouteOutcomes : RouteResponse(req, outcome)

SpecRoute == InitFresh /\ [][NextRoute]_vars

\* the route core of a user who stands still: the location is the one of the
\* fixes, no watch callback moves it.  The route handlers read userLocation
\* when they run and nothing else of the location core.
NextRouteAtRest ==
    \/ AppInit
    \/ FixSuccess
    \/ FixError
    \/ \E place \in Places : SetDestination(place)
    \/ ClearRoute
    \/ \E req \in inflightRoutes, outcome \in RouteOutcomes : RouteResponse(req, outcome)

SpecRouteAtRest == InitFresh /\ [][NextRouteAtRest]_vars

\* the location core: fixes, the watch subscription, the permission buttons,
\* the page going to the background and coming back
NextLocation ==
    \/ AppInitPlain
    \/ FixSuccess
    \/ FixError
    \/ WatchUpdate
    \/ AllowLocation
    \/ DenyLocation
    \/ MyLocation
    \/ Hide
    \/ Show

SpecLocation == InitFresh /\ [][NextLocation]_vars

\* the travel modes: the mode read from storage, the mode buttons, and the
\* routes requested for a destination while the user location moves.  What
\* a response writes (the polyline, the summary, the toast) is read by none
\* of these handlers, so the requests are followed up to their sending.
NextMode ==
    \/ AppInitPlain
    \/ FixSuccess
    \/ WatchUpdate
    \/ \E place \in Places : SetDestination(place)
    \/ \E mode \in TravelModes, ok \in WriteOutcomes : SelectTravelMode(mode, ok)

\* the initial states of a device that locates itself and kept no last
\* location, with whatever travel mode an earlier session persisted
InitMode == Init /\ geoSupported /\ stLastLocation = NULL /\ NothingStored

SpecMode == InitMode /\ [][NextMode]_vars

\* the search box: input, debounce, requests and their responses, with the
\* user location the bias is taken from
NextSearch ==
    \/ AppInitPlain
    \/ FixSuccess
    \/ FixError
    \/ \E raw \in RawInputs : SearchInput(raw)
    \/ SearchBlur
    \/ SearchFocus
    \/ \E timer \in timers : TimerFires(timer)
    \/ \E req \in inflightSearches, outcome \in SearchOutcomes, n \in ResponseSizes :
          SearchResponse(req, outcome, n)

SpecSearch == InitFresh /\ [][NextSearch]_vars

\* the search box alone: the input, the timers and the responses, with the
\* user location as App.init left it.  The input and timer handlers read
\* nothing of the location; only the request's viewbox is taken from it.
NextDebounce ==
    \/ AppInitPlain
    \/ \E raw \in RawInputs : SearchInput(raw)
    \/ SearchBlur
    \/ SearchFocus
    \/ \E timer \in timers : TimerFires(timer)
    \/ \E req \in inflightSearches, outcome \in SearchOutcomes, n \in ResponseSizes :
          SearchResponse(req, outcome, n)

SpecDebounce == InitFresh /\ [][NextDebounce]_vars

\* route requests and search requests side by side, up to MaxJointRequests
\* requests in all; the user location is the last known one, if any
RequestBudget == routeSeq + searchSeq < MaxJointRequests

NextRequests ==
    \/ AppInitPlain
    \/ RequestBudget /\ \E place \in Places : SetDestination(place)
    \/ \E req \in inflightRoutes, outcome \in RouteOutcomes : RouteResponse(req, outcome)
    \/ RequestBudget /\ \E raw \in RawInputs : SearchInput(raw)
    \/ RequestBudget /\ \E timer \in timers : TimerFires(timer)
    \/ \E req \in inflightSearches, outcome \in SearchOutcomes, n \in 0..MaxResults :
          SearchResponse(req, outcome, n)

SpecRequests == InitFresh /\ [][NextRequests]_vars

\* the recent list and the calls that change it
InitRecent ==
    /\ Init
    /\ stTravelMode = NULL /\ stLastLocation = NULL /\ geoSupported
    /\ stFavorites = <<>>
    /\ stItems = [key \in ItemKeys |-> NULL]

NextRecent ==
    \/ Tick
    \/ \E search \in RecentInputs, ok \in WriteOutcomes : AddRecent(search, ok)
    \/ \E ok \in WriteOutcomes : ClearRecent(ok)

SpecRecent == InitRecent /\ [][NextRecent]_vars

\* the favorites list under addFavorite and removeFavorite called with any
\* location and id, and under the delete buttons
InitFavorites ==
    /\ Init
    /\ stTravelMode = NULL /\ stLastLocation = NULL /\ geoSupported
    /\ stRecent = <<>>
    /\ stItems = [key \in ItemKeys |-> NULL]

FavoriteIds == (SessionStart - 2)..(SessionStart + MaxTicks)

NextFavorites ==
    \/ AppInitPlain
    \/ Tick
    \/ \E location \in FavoriteInputs, ok \in WriteOutcomes : AddFavorite(location, ok)
    \/ \E i \in 1..MaxFavorites, ok \in WriteOutcomes : DeleteFavoriteClick(i, ok)
    \/ \E id \in FavoriteIds, ok \in WriteOutcomes : RemoveFavorite(id, ok)

SpecFavorites == InitFavorites /\ [][NextFavorites]_vars

\* every reverse-geocode request settles: the fetch resolves or rejects
FairFavorites ==
    WF_vars(\E req \in inflightGeocodes, outcome \in GeocodeOutcomes,
               data \in GeocodeBodies, ok \in WriteOutcomes :
                 GeocodeResponse(req, outcome, data, ok))

\* the add button, on a page that starts with no favorites
NextAddFavorite ==
    \/ AppInitPlain
    \/ \E center \in PanTargets : PanMap(center)
    \/ AddCurrentLocationAsFavorite
    \/ \E req \in inflightGeocodes, outcome \in GeocodeOutcomes,
          data \in GeocodeBodies, ok \in WriteOutcomes :
            GeocodeResponse(req, outcome, data, ok)

InitNoFavorites == InitFavorites /\ stFavorites = <<>>

SpecFavoritesFair == InitNoFavorites /\ [][NextAddFavorite]_vars /\ FairFavorites

\* picking a search result, with and without a user location
NextPick ==
    \/ AppInitPlain
    \/ FixSuccess
    \/ \E raw \in RawInputs : SearchInput(raw)
    \/ \E timer \in timers : TimerFires(timer)
    \/ \E req \in inflightSearches, outcome \in SearchOutcomes, n \in 0..MaxResults :
          SearchResponse(req, outcome, n)
    \/ \E i \in 1..MaxResults, ok \in WriteOutcomes : SearchResultsClick(i, ok)

SpecPick == InitFresh /\ [][NextPick]_vars

\* get, set and remove on a store that may throw at any call
InitStorage ==
    /\ Init
    /\ stTravelMode = NULL /\ stLastLocation = NULL /\ geoSupported
    /\ stRecent = <<>> /\ stFavorites = <<>>

Defaults == {NULL, [text |-> "light"]}

NextStorage ==
    \/ \E key \in ItemKeys, defaultValue \in Defaults, throws \in BOOLEAN :
          StorageGet(key, defaultValue, throws)
    \/ \E key \in ItemKeys, value \in StoredValues, throws \in BOOLEAN :
          StorageSet(key, value, throws)
    \/ \E key \in ItemKeys, throws \in BOOLEAN : StorageRemove(key, throws)

SpecStorage == InitStorage /\ [][NextStorage]_vars

\* the summary of any route the service may answer with
SummaryRoutes ==
    { [profile |-> "car", start |-> [lat |-> 1, lng |-> 1],
       end |-> [lat |-> 11, lng |-> 11],
       distance |-> d, duration |-> t, above |-> b] :
         d \in SummaryDistances, t \in SummaryDurations, b \in BOOLEAN }

NextSummary == \E route \in SummaryRoutes : DisplayRoute(route)

InitSummary == InitFresh /\ stLastLocation = NULL /\ geoSupported

SpecSummary == InitSummary /\ [][NextSummary]_vars

(***************************************************************************)
(* Properties of the search box.                                           *)
(***************************************************************************)
\* C1: once every search response has arrived and the latest request issued
\* by performSearch got a result list, Search.currentResults is a result list
\* of that request's query and the items rendered are its items, whatever
\* order the responses arrived in.
SearchLastQueryWins ==
    (latestSearch # NULL /\ latestSearch.ok /\ inflightSearches = {})
        => /\ \E n \in ResponseSizes : currentResults = ResponseOf(latestSearch, n)
           /\ renderedResults = RenderedItems(currentResults)

\* C14: no step that sends a request or sets a timer is the arrival of a
\* response, failed or not: a response only leaves the requests in flight; a
\* route request is sent only by a setDestination, one per call, and a
\* search request only by the debounce timer an input set, one per timer.
NoAutomaticRetry ==
    [][/\ \A req \in inflightRoutes : \A outcome \in RouteOutcomes :
            (\/ routeSeq' # routeSeq
             \/ inflightRoutes' # inflightRoutes \ {req}
             \/ searchSeq' # searchSeq
             \/ inflightSearches' # inflightSearches
             \/ timers' # timers)
                => ~RouteResponse(req, outcome)
       /\ \A req \in inflightSearches : \A outcome \in SearchOutcomes :
            \A n \in 0..MaxResults :
                (\/ searchSeq' # searchSeq
                 \/ inflightSearches' # inflightSearches \ {req}
                 \/ routeSeq' # routeSeq
                 \/ inflightRoutes' # inflightRoutes
                 \/ timers' # timers)
                    => ~SearchResponse(req, outcome, n)
       /\ routeSeq' # routeSeq =>
            /\ routeSeq' = routeSeq + 1
            /\ Cardinality(inflightRoutes' \ inflightRoutes) = 1
            /\ \E place \in Places : SetDestination(place)
       /\ searchSeq' # searchSeq =>
            /\ searchSeq' = searchSeq + 1
            /\ Cardinality(inflightSearches' \ inflightSearches) = 1
            /\ \E timer \in timers : timer.kind = "search" /\ TimerFires(timer)]_vars

\* a route request and a search request have both failed, and nothing is
\* in flight or pending
BothFailedNothingPending ==
    /\ routeSeq = 1
    /\ searchSeq = 1
    /\ latestRoute # NULL
    /\ ~latestRoute.ok
    /\ latestSearch # NULL
    /\ ~latestSearch.ok
    /\ inflightRoutes = {}
    /\ inflightSearches = {}
    /\ timers = {}

Debouncing(pending) == {tm \in pending : tm.kind = "search"}

\* C18: at most one debounce timer is pending; an input replaces the pending
\* timer by one for its own query (by none when the query is short) and
\* sends nothing; nothing else sets a debounce timer; and a request is sent
\* only by a debounce timer firing, for that timer's query.
DebounceSupersedes ==
    /\ [](Cardinality(Debouncing(timers)) <= 1)
    /\ [][
         /\ \A raw \in RawInputs :
               LET own == IF Len(Trim(raw)) >= 3
                          THEN {[id |-> timerSeq + 1, kind |-> "search",
                                 query |-> Trim(raw)]}
                          ELSE {}
               IN  (Debouncing(timers') # own \/ searchSeq' # searchSeq)
                       => ~SearchInput(raw)
         /\ ~(Debouncing(timers') \subseteq Debouncing(timers))
               => \E raw \in RawInputs : SearchInput(raw)
         /\ searchSeq' # searchSeq =>
                   \E timer \in Debouncing(timers) :
                       /\ TimerFires(timer)
                       /\ \E req \in inflightSearches' :
                             /\ req.query = timer.query
                             /\ inflightSearches' = inflightSearches \cup {req}
                             /\ req \notin inflightSearches
       ]_vars

\* a second input has replaced the timer of the first before it fired
SecondInputSuperseded ==
    /\ timerSeq = 2
    /\ searchSeq = 0
    /\ searchTimeout = 2
    /\ \E tm \in timers : timers = {tm} /\ tm.id = 2 /\ tm.kind = "search"

\* C19: a search request carries the bounding box of half a degree on each
\* side of MapModule.userLocation when there is one as the request is built,
\* and no bounding box when there is none.  (The box is in half degrees.)
SearchBiasedToUser ==
    [][\A req \in inflightSearches' \ inflightSearches :
          IF userLocation = NULL
          THEN req.viewbox = NULL
          ELSE /\ req.viewbox # NULL
               /\ req.viewbox.west + 1 = 2 * userLocation.lng
               /\ req.viewbox.east - 1 = 2 * userLocation.lng
               /\ req.viewbox.south + 1 = 2 * userLocation.lat
               /\ req.viewbox.north - 1 = 2 * userLocation.lat]_vars

\* one request was built with a user location and one without
SearchesWithAndWithoutBias ==
    /\ userLocation # NULL
    /\ \E req \in inflightSearches : req.viewbox = NULL
    /\ \E req \in inflightSearches :
          req.viewbox # NULL /\ req.viewbox.west + 1 = 2 * userLocation.lng

\* C20: Search.currentResults holds at most ResultLimit results, whatever
\* list the response held.
AtMostFiveResults == Len(currentResults) <= ResultLimit

(***************************************************************************)
(* Properties of the route core.                                           *)
(***************************************************************************)
\* C2: once every route response has arrived and the latest invocation of
\* getRoute got a route, the polyline drawn and the summary shown are those
\* of the latest invocation, whatever order the responses arrived in.
RouteLastRequestWins ==
    (latestRoute # NULL /\ latestRoute.ok /\ inflightRoutes = {})
        => (routeLayer = latestRoute.route /\ routeSummary = latestRoute.route)

\* C3: when the response of a getRoute invocation is a failure (rejected
\* fetch, code other than "Ok", no routes) and nothing else changed the Route
\* state since the invocation, a failure is reported and Routing.currentRoute
\* and the drawn polyline are what they were before the invocation.
RouteFailureKeepsPriorRoute ==
    [][\A req \in inflightRoutes : \A outcome \in RouteOutcomes \ {"ok"} :
          (RouteResponse(req, outcome)
              /\ routeSnapshot # NULL /\ routeSnapshot.id = req.id)
          => /\ lastToast' = "Failed to calculate route"
             /\ currentRoute' = routeSnapshot.currentRoute
             /\ routeLayer' = routeSnapshot.routeLayer]_vars

\* C4: a drawn route implies a user location and a destination marker.
DrawnRouteHasEndpoints ==
    routeLayer # NULL => (userLocation # NULL /\ destinationMarker # NULL)

\* C5: Routing.clearRoute leaves currentRoute, routeLayer and
\* destinationMarker null, and does not change userLocation, watchId,
\* travelMode or anything persisted.
ClearRouteClearsAndKeeps ==
    [][ClearRoute =>
          /\ currentRoute' = NULL
          /\ routeLayer' = NULL
          /\ destinationMarker' = NULL
          /\ userLocation' = userLocation
          /\ watchId' = watchId
          /\ travelMode' = travelMode
          /\ stLastLocation' = stLastLocation
          /\ stTravelMode' = stTravelMode]_vars

\* a route was displayed for a known location, and clearRoute has run
ClearRouteActed ==
    /\ routeSummary # NULL
    /\ panelHidden
    /\ userLocation # NULL
    /\ currentRoute = NULL
    /\ routeLayer = NULL
    /\ destinationMarker = NULL

\* C6: clearRoute raises nothing, applying it twice gives the state that
\* applying it once gives, and with no route and no destination active it
\* changes nothing at all.
ClearRouteIdempotent ==
    LET once == RoutingClearRoute(Cur)
    IN  /\ once.raised = raised
        /\ RoutingClearRoute(once) = once
        /\ (currentRoute = NULL /\ routeLayer = NULL /\ destinationMarker = NULL)
              => once = Cur

\* clearRoute has run on a displayed route, and running it again is a no-op
ClearRouteTwice ==
    /\ routeSummary # NULL
    /\ panelHidden
    /\ markersOnMap = 0
    /\ polylinesOnMap = 0
    /\ RoutingClearRoute(Cur) = Cur

\* C10: setDestination(lat, lng) sends exactly one route request, from the
\* current userLocation to (lat, lng), when userLocation is non-null, and
\* none when it is null; in travel mode "driving" the profile is "car".
SetDestinationRequestsOnce ==
    [][\A place \in Places :
          SetDestination(place) =>
              IF userLocation # NULL
              THEN /\ routeSeq' = routeSeq + 1
                   /\ \E req \in inflightRoutes' \ inflightRoutes :
                         /\ inflightRoutes' = inflightRoutes \cup {req}
                         /\ req.start = userLocation
                         /\ req.end = place
                         /\ travelMode = "driving" => req.profile = "car"
              ELSE /\ routeSeq' = routeSeq
                   /\ inflightRoutes' = inflightRoutes]_vars

\* setDestination has sent its request in the default travel mode
SetDestinationRequested ==
    /\ lastToast = "Destination set"
    /\ travelMode = "driving"
    /\ routeSeq = 1
    /\ \E req \in inflightRoutes :
          req.start = userLocation /\ req.end = destinationMarker

\* C11: at most one destination marker and at most one route polyline are on
\* the map, they are the ones destinationMarker and routeLayer hold, and
\* after setDestination the one marker is at the coordinates it was given,
\* with or without a user location.
OneMarkerOnePolyline ==
    /\ [](/\ markersOnMap = (IF destinationMarker = NULL THEN 0 ELSE 1)
          /\ polylinesOnMap = (IF routeLayer = NULL THEN 0 ELSE 1))
    /\ [][\A place \in Places :
             SetDestination(place) =>
                 (destinationMarker' = place /\ markersOnMap' = 1)]_vars

\* two routes were drawn one after the other (the later request's first, then
\* the earlier request's) and the destination was set twice
SecondMarkerSecondPolyline ==
    /\ routeSeq = 2
    /\ inflightRoutes = {}
    /\ latestRoute # NULL
    /\ latestRoute.ok
    /\ routeLayer # NULL
    /\ routeLayer # latestRoute.route
    /\ destinationMarker = latestRoute.route.end
    /\ markersOnMap = 1
    /\ polylinesOnMap = 1

\* C13: when the response of a route request arrives, getRoute reports a
\* failure, draws nothing and raises nothing if the fetch was rejected, the
\* code is not "Ok" or there is no route; otherwise it draws the first route,
\* shows its summary and reports success.  (The request whose response
\* arrives in a step is the one that leaves inflightRoutes.)
RouteFailsExactlyWhen ==
    [][\A req \in inflightRoutes \ inflightRoutes' : \A outcome \in RouteOutcomes :
          LET reported ==
                  IF outcome \in {"network", "notOk", "empty"}
                  THEN /\ lastToast' = "Failed to calculate route"
                       /\ routeLayer' = routeLayer
                       /\ polylinesOnMap' = polylinesOnMap
                       /\ routeSummary' = routeSummary
                       /\ panelHidden' = panelHidden
                       /\ raised' = raised
                  ELSE /\ lastToast' = "Route calculated"
                       /\ routeLayer' = RouteOf(req)
                       /\ routeSummary' = RouteOf(req)
                       /\ polylinesOnMap' = 1
                       /\ ~panelHidden'
                       /\ raised' = raised
          IN  ~reported => ~RouteResponse(req, outcome)]_vars

\* a request failed after another one's route had been drawn
RouteFailedAfterDrawn ==
    /\ lastToast = "Failed to calculate route"
    /\ routeLayer # NULL
    /\ ~panelHidden
    /\ routeSeq = 2
    /\ inflightRoutes = {}

TravelModeAloneRequestsNothing ==
    [][\A mode \in TravelModes : \A ok \in WriteOutcomes :
          (SelectTravelMode(mode, ok) /\ currentRoute = NULL) =>
              /\ routeSeq' = routeSeq
              /\ inflightRoutes' = inflightRoutes
              /\ Cur' = [Cur EXCEPT !.travelMode = mode, !.stTravelMode = [v |-> mode]]
              /\ travelModeClick(Cur', mode, ok) = Cur']_vars

\* a travel mode was selected with a destination marked, a user location
\* known and no route ever requested
TravelModeSelectedWithoutRoute ==
    /\ travelMode = "walking"
    /\ stTravelMode = [v |-> "walking"]
    /\ currentRoute = NULL
    /\ destinationMarker # NULL
    /\ userLocation # NULL
    /\ routeSeq = 0

(***************************************************************************)
(* Properties of the location core.                                        *)
(***************************************************************************)
\* C7: the watches started and not cancelled are at most one, the one
\* MapModule.watchId names.
AtMostOneWatch ==
    /\ Cardinality(activeWatches) <= 1
    /\ activeWatches = (IF watchId = 0 THEN {} ELSE {watchId})

\* watchLocation has run a second time: the first watch is gone
SecondWatchActive ==
    /\ watchSeq >= 2
    /\ watchId = watchSeq
    /\ activeWatches = {watchSeq}

\* C8: hiding the page cancels an active watch, and if a watch was active
\* when the page was hidden, one is active again once the page is shown.
TrackingResumesOnShow ==
    [][/\ (Hide /\ watchId # 0) => (watchId' = 0 /\ watchId \notin activeWatches')
       /\ (Show /\ trackedAtHide) => (watchId' # 0 /\ watchId' \in activeWatches')]_vars

\* C9: while the page is hidden no watch is active.
NoWatchWhileHidden ==
    hidden => (watchId = 0 /\ activeWatches = {})

(***************************************************************************)
(* Properties of the preferences store.                                    *)
(***************************************************************************)
SameCoordinate(a, b) == a.lat = b.lat /\ a.lng = b.lng

\* C22: with storage writes succeeding, after any sequence of
\* addRecentSearch and clearRecentSearches calls the persisted recent list
\* has at most 50 entries and no two of them have equal (lat, lng).
RecentBoundedAndDistinct ==
    /\ Len(stRecent) <= RecentCap
    /\ \A i, j \in 1..Len(stRecent) :
          i # j => ~SameCoordinate(stRecent[i], stRecent[j])

\* a full list whose oldest coordinate has been added again in this session
RecentFullAfterReAdd ==
    /\ Len(stRecent) = RecentCap
    /\ stRecent[1].lat = 1 /\ stRecent[1].lng = 1
    /\ stRecent[1].timestamp >= SessionStart

FavoriteIdsDistinct ==
    \A i, j \in 1..Len(stFavorites) :
        i # j => stFavorites[i].id # stFavorites[j].id

\* removeFavorite(id) has taken the favorites from old to the present list
RemovedById(old, id) ==
    LET Other(fav) == fav.id # id
    IN  /\ \A k \in 1..Len(stFavorites') : stFavorites'[k].id # id
        /\ stFavorites' = SelectSeq(old, Other)
        /\ (\A k \in 1..Len(old) : old[k].id # id) => stFavorites' = old
        /\ raised' = raised
        /\ removeFavorite(Cur', id, TRUE).stFavorites = stFavorites'

NumberOf(text) == CHOOSE n \in 0..99 : ToDigits(n) = text

FailureMessages ==
    {LocationErrorMessage(code) : code \in FixErrors} \cup {"Geolocation not supported"}

\* a step in which acquiring the location fails: the error callback of
\* getCurrentPosition, or getUserLocation on a browser without geolocation
AcquisitionFails ==
    \/ FixError
    \/ /\ ~geoSupported
       /\ AppInitPlain \/ AllowLocation \/ (userLocation = NULL /\ MyLocation)

\* no operation of the state s sends a route request
NoRouteRequestFrom(s) ==
    /\ \A place \in Places :
          setDestination(s, place.lat, place.lng).routeSeq = s.routeSeq
    /\ \A mode \in TravelModes, ok \in WriteOutcomes :
          travelModeClick(s, mode, ok).routeSeq = s.routeSeq
    /\ MapClearRoute(s).routeSeq = s.routeSeq

LocationPersisted ==
    userLocation # NULL =>
        /\ stLastLocation # NULL
        /\ stLastLocation.lat = userLocation.lat
        /\ stLastLocation.lng = userLocation.lng

\* a watch callback has moved the user location away from the fix the
\* viewport was centred on
WatchMovedLocation ==
    /\ userLocation # NULL
    /\ activeWatches # {}
    /\ mapView # userLocation
    /\ stLastLocation = userLocation

(***************************************************************************)
(* Properties of Storage.get, set and remove.                              *)
(***************************************************************************)
\* C29: get, set and remove never raise to their caller: when the store
\* throws, or the value cannot be serialized, or the item cannot be parsed,
\* set and remove return false, get returns the default it was given, and
\* what is stored under the key is unchanged.
StorageNeverRaises ==
    [][
        /\ raised' = raised
        /\ \A key \in ItemKeys, value \in StoredValues, throws \in BOOLEAN :
              (throws \/ "cyclic" \in DOMAIN value) /\ StorageSet(key, value, throws)
                  => returned' = [success |-> FALSE] /\ stItems' = stItems
        /\ \A key \in ItemKeys :
              StorageRemove(key, TRUE)
                  => returned' = [success |-> FALSE] /\ stItems' = stItems
        /\ \A key \in ItemKeys, defaultValue \in Defaults, throws \in BOOLEAN :
              (throws \/ stItems[key] = [raw |-> "{"])
                  /\ StorageGet(key, defaultValue, throws)
                  => returned' = [value |-> defaultValue] /\ stItems' = stItems
    ]_vars

\* a write has failed and left the item of an earlier write under its key
WriteFailedItemKept ==
    /\ returned = [success |-> FALSE]
    /\ \E key \in ItemKeys : stItems[key] = [json |-> [text |-> "standard"]]

(***************************************************************************)
(* Properties of the route summary.                                        *)
(***************************************************************************)
\* the text of a number of tenths with one decimal
OneDecimal(tenths) == ToDigits(tenths \div 10) \o <<".">> \o ToDigits(tenths % 10)

\* C30: for a route of d metres and t seconds the displayed distance is
\* d / 1000 km rounded to one decimal and the displayed duration is
\* ceil(t / 60) minutes, written "M min" below 60 minutes and "Hh Mmin" with
\* 0 <= M < 60 and 60 * H + M = ceil(t / 60) otherwise; d = 1000 and
\* t = 120 give "1.0 km" and "2 min".
SummaryShowsRoundedValues ==
    summaryText # NULL =>
        LET d == routeSummary.distance
            t == routeSummary.duration
            ceil == CHOOSE m \in 0..(t \div 60) + 1 : 60 * m >= t /\ 60 * (m - 1) < t
        IN  /\ \E tenths \in (d \div 100)..(d \div 100) + 1 :
                  /\ 100 * tenths - d <= 50
                  /\ d - 100 * tenths <= 50
                  /\ summaryText.distance = OneDecimal(tenths) \o <<" ", "k", "m">>
            /\ IF ceil < 60
               THEN summaryText.duration = ToDigits(ceil) \o <<" ", "m", "i", "n">>
               ELSE \E H \in 1..ceil, M \in 0..59 :
                      /\ 60 * H + M = ceil
                      /\ summaryText.duration =
                            ToDigits(H) \o <<"h", " ">> \o ToDigits(M) \o <<"m", "i", "n">>
            /\ (d = 1000 /\ t = 120) =>
                  /\ summaryText.distance = <<"1", ".", "0", " ", "k", "m">>
                  /\ summaryText.duration = <<"2", " ", "m", "i", "n">>

\* the summary of a route of 1050 metres and 3541 seconds: a length halfway
\* between two tenths, a minute that has just started past the hour
SummaryOfHalfwayRoute ==
    /\ summaryText # NULL
    /\ routeSummary.distance = 1050
    /\ routeSummary.duration = 3541
    /\ summaryText.duration = <<"1", "h", " ", "0", "m", "i", "n">>

(***************************************************************************)
(* Properties of the session as a whole.                                   *)
(***************************************************************************)
\* the place the user of a session picks, and the mode button they click
SessionPlace == [lat |-> 11, lng |-> 11]
SessionMode == "walking"

\* one session: locating and its failures, watch callbacks, a destination,
\* a travel mode, clearing, route responses, the page hidden and shown
NextSession ==
    \/ AppInit
    \/ FixSuccess
    \/ FixError
    \/ WatchUpdate
    \/ SetDestination(SessionPlace)
    \/ \E ok \in WriteOutcomes : SelectTravelMode(SessionMode, ok)
    \/ ClearRoute
    \/ \E req \in inflightRoutes, outcome \in RouteOutcomes : RouteResponse(req, outcome)
    \/ Hide
    \/ Show

SpecSession == InitFresh /\ [][NextSession]_vars

\* C31: userLocation, once non-null, is never null again; currentRoute is
\* non-null only while userLocation is non-null; and clearRoute takes a
\* session with a route to one with its location and no route.
SessionStates ==
    [][
        /\ userLocation # NULL => userLocation' # NULL
        /\ currentRoute' # NULL => userLocation' # NULL
        /\ ClearRoute => /\ currentRoute' = NULL
                         /\ routeLayer' = NULL
                         /\ userLocation' = userLocation
    ]_vars

\* a route was requested for a located user in another travel mode than the
\* initial one, and clearRoute has taken the session back to located
LocatedAfterRoute ==
    /\ userLocation # NULL
    /\ routeSeq > 0
    /\ travelMode # "driving"
    /\ currentRoute = NULL
    /\ routeLayer = NULL

(***************************************************************************)
(* Properties of the drawn route and the route endpoints.                  *)
(***************************************************************************)
\* C32: whenever a route is drawn and no route request is in flight, the
\* drawn route ends at the current destination marker; no polyline of an
\* older destination stays next to a newer marker once the request for
\* the newer one has settled, with success or with failure.
DrawnRouteIsForDestination ==
    (routeLayer # NULL /\ inflightRoutes = {}) =>
        (destinationMarker # NULL /\ routeLayer.end = destinationMarker)

\* the route request or the drawn route that the endpoints in currentRoute
\* stand for
EndpointsLive ==
    \/ /\ routeLayer # NULL
       /\ routeLayer.start = currentRoute.start
       /\ routeLayer.end = currentRoute.end
    \/ \E req \in inflightRoutes :
          req.start = currentRoute.start /\ req.end = currentRoute.end

\* C33: currentRoute is non-null only while a route for exactly its
\* endpoints is drawn or a request for them is in flight; with no route
\* drawn and no request in flight (as after a failed first request) a
\* travel-mode click issues no route request.
CurrentRouteIsLive ==
    /\ [](currentRoute # NULL => EndpointsLive)
    /\ [][
            /\ routeLayer = NULL
            /\ inflightRoutes = {}
            /\ \E ok \in WriteOutcomes : SelectTravelMode(SessionMode, ok)
            => routeSeq' = routeSeq
        ]_vars

(***************************************************************************)
(* Properties of the search box once its input is short again.             *)
(***************************************************************************)
\* C34: while the trimmed input has fewer than 3 characters the result
\* list is hidden, and from the input that shortened it until an input of
\* at least 3 characters Search.currentResults is not replaced, whatever
\* response arrives in between.
ShortInputKeepsResultsHidden ==
    /\ [](queryShort => resultsHidden)
    /\ [][(queryShort /\ queryShort') => currentResults' = currentResults]_vars

(***************************************************************************)
(* Properties of location updates in a session.                            *)
(***************************************************************************)
\* C35: a location update (a fix, a watch callback, a failure falling back
\* to the persisted location) sends no route request and leaves
\* currentRoute, the drawn route and the destination marker as they were;
\* so a destination set before any location was known has no route after
\* the location arrives.
LocationUpdateRequestsNoRoute ==
    [][
        \/ /\ routeSeq' = routeSeq
           /\ inflightRoutes' = inflightRoutes
           /\ currentRoute' = currentRoute
           /\ routeLayer' = routeLayer
           /\ destinationMarker' = destinationMarker
        \/ ~(FixSuccess \/ FixError \/ WatchUpdate)
    ]_vars

\* a destination was set while no location was known, a fix has brought
\* the location and started the watch, and no route was requested
DestinationWaitsForRoute ==
    /\ destinationMarker # NULL
    /\ userLocation # NULL
    /\ stLastLocation # NULL /\ userLocation = stLastLocation
    /\ watchId # 0
    /\ routeSeq = 0
    /\ currentRoute = NULL
    /\ routeLayer = NULL

(***************************************************************************)
(* Properties of the clicks on the result list.                            *)
(***************************************************************************)
\* C36: every click on an item of the rendered result list hands
\* selectSearchResult a defined element of Search.currentResults: the item
\* carries an index, an integer of 0 .. Len(currentResults) - 1, also when
\* the list is the one item rendered for an empty response.
ClickedItemHasResult ==
    [][
        \A i \in 1..Len(renderedResults), ok \in WriteOutcomes :
            SearchResultsClick(i, ok) =>
                /\ "index" \in DOMAIN renderedResults[i]
                /\ ParseInt(renderedResults[i].index) \in 0..(Len(currentResults) - 1)
                /\ ~raised'
    ]_vars

(***************************************************************************)
(* Properties of the measuring tool.                                       *)
(***************************************************************************)
\* the measuring tool of a page whose first fix is still awaited: the
\* measure button, clicks on the map, the timer that clears a result
NextMeasure ==
    \/ AppInitPlain
    \/ StartMeasuring
    \/ \E place \in Places : MapClick(place)
    \/ \E timer \in timers : TimerFires(timer)

InitMeasure == InitFresh /\ geoSupported /\ stLastLocation = NULL

SpecMeasure == InitMeasure /\ [][NextMeasure]_vars

\* C37: the measuring tool holds at most two measurement points and at
\* most one measuring click handler is registered, whatever the sequence
\* of startMeasuring invocations and map clicks.
AtMostTwoMeasurePoints ==
    /\ Len(measureMarkers) <= 2
    /\ measureHandlers <= 1

(***************************************************************************)
(* Properties of the nearby-places modal.                                  *)
(***************************************************************************)
\* nearby places on a page whose first fix is still awaited: the modal
\* opened and closed, the category buttons, the responses, the places
NextNearby ==
    \/ AppInitPlain
    \/ ShowNearbyPlaces
    \/ CloseNearby
    \/ \E category \in Categories : CategoryClick(category)
    \/ \E req \in inflightNearby, outcome \in SearchOutcomes, n \in 0..MaxResults :
          NearbyResponse(req, outcome, n)
    \/ \E i \in 1..Len(nearbyResults) : NearbyResultClick(i)

SpecNearby == InitMeasure /\ [][NextNearby]_vars

\* C38: one click on a category button sends exactly one nearby search
\* request, however many times the modal was opened before.
CategoryClickSendsOneRequest ==
    [][
        \A category \in Categories :
            CategoryClick(category) =>
                /\ nearbySeq' = nearbySeq + 1
                /\ Cardinality(inflightNearby' \ inflightNearby) = 1
    ]_vars

====
